---------------------------- MODULE Spec2Model ----------------------------
(***************************************************************************)
(* Model of the frequency / phase-angle / RoCoF pipeline and of the Dash   *)
(* callback of src/main.py and src/BO_2025/main.py.                        *)
(*                                                                         *)
(* Numbers.  A float is modelled as an exact extended rational <<n, d>>:   *)
(* d > 0 and gcd(n, d) = 1 for a finite value, <<0, 0>> for NaN (pandas'   *)
(* missing marker, also NaT), <<1, 0>> and <<-1, 0>> for +inf and -inf.    *)
(* Rounding of binary floating point is not modelled.  A phase is stored   *)
(* as its coefficient of 2*pi (radians = 2*pi * coefficient).              *)
(*                                                                         *)
(* Strings.  A column name is a sequence of tokens, for instance           *)
(* <<"DE_Ostrhauderfehn", ":", "Frequency">>; `in`, str.replace and + are  *)
(* modelled on token sequences.                                            *)
(*                                                                         *)
(* Rows are numbered from 1 here; row i of the source is row i + 1.        *)
(***************************************************************************)
EXTENDS Integers, Sequences, FiniteSets, TLC

(***************************************************************************)
(* Bounds of the model.                                                    *)
(***************************************************************************)
MaxRows == 3          \* rows of an input table of the numeric specification
MaxTick == 2          \* timestamps are ticks 0..MaxTick
TicksPerSecond == 2   \* sub-second resolution of a timestamp
ServeRows == 2        \* rows of an input table of the serving specifications
MaxSelection == 2     \* stations selected by one request
MaxRequests == 2      \* requests in flight in the concurrent specification

(***************************************************************************)
(* Extended rational arithmetic (numpy / pandas float64 operators).        *)
(***************************************************************************)
Abs(n) == IF n < 0 THEN -n ELSE n

Sgn(n) == IF n < 0 THEN -1 ELSE IF n > 0 THEN 1 ELSE 0

RECURSIVE GCD(_, _)
GCD(a, b) == IF b = 0 THEN a ELSE GCD(b, a % b)

Norm(n, d) ==
    IF d = 0 THEN <<Sgn(n), 0>>
    ELSE LET g == GCD(Abs(n), Abs(d))
             s == Sgn(d)
         IN  <<(s * n) \div g, (s * d) \div g>>

NaN == <<0, 0>>

Zero == <<0, 1>>

IsNaN(a) == a = NaN

IsFinite(a) == a[2] # 0

Rat(n, d) == Norm(n, d)

RAdd(a, b) ==
    IF a[2] = 0 /\ b[2] = 0
    THEN (IF a[1] = b[1] THEN a ELSE NaN)
    ELSE Norm(a[1] * b[2] + b[1] * a[2], a[2] * b[2])

RNeg(a) == <<-a[1], a[2]>>

RSub(a, b) == RAdd(a, RNeg(b))

RMul(a, b) == Norm(a[1] * b[1], a[2] * b[2])

RDiv(a, b) ==
    IF a[2] = 0 /\ b[2] # 0
    THEN (IF b[1] < 0 THEN RNeg(a) ELSE a)
    ELSE Norm(a[1] * b[2], a[2] * b[1])

(***************************************************************************)
(* pandas.Series / numpy array operations used by the pipeline.            *)
(***************************************************************************)
\* indices of s before (after) i that hold a value
ValidBefore(s, i) == {j \in 1..(i - 1) : ~IsNaN(s[j])}

ValidAfter(s, i) == {j \in (i + 1)..Len(s) : ~IsNaN(s[j])}

Max(S) == CHOOSE x \in S : \A y \in S : y <= x

Min(S) == CHOOSE x \in S : \A y \in S : x <= y

\* Series.interpolate(): method='linear' (values taken as equally spaced),
\* limit_direction='forward': a gap after the last valid value is filled with
\* it, a gap before the first valid value is left missing.
interpolate(s) ==
    [i \in 1..Len(s) |->
        IF ~IsNaN(s[i]) THEN s[i]
        ELSE IF ValidBefore(s, i) = {} THEN NaN
        ELSE LET p == Max(ValidBefore(s, i)) IN
             IF ValidAfter(s, i) = {} THEN s[p]
             ELSE LET q == Min(ValidAfter(s, i)) IN
                  RAdd(s[p], RMul(RSub(s[q], s[p]), Rat(i - p, q - p)))]

\* Series.bfill(): a missing value takes the next valid one
bfill(s) ==
    [i \in 1..Len(s) |->
        IF ~IsNaN(s[i]) \/ ValidAfter(s, i) = {} THEN s[i]
        ELSE s[Min(ValidAfter(s, i))]]

\* Series.ffill(): a missing value takes the previous valid one
ffill(s) ==
    [i \in 1..Len(s) |->
        IF ~IsNaN(s[i]) \/ ValidBefore(s, i) = {} THEN s[i]
        ELSE s[Max(ValidBefore(s, i))]]

\* df[col].interpolate().bfill().ffill()
GapFill(s) == ffill(bfill(interpolate(s)))

\* Series.diff(): missing at the first row
diff(s) == [i \in 1..Len(s) |-> IF i = 1 THEN NaN ELSE RSub(s[i], s[i - 1])]

\* the differences taken forward, the last step zero (right rectangles)
np_diff_append(x) ==
    [i \in 1..Len(x) |->
        IF i = Len(x) THEN RSub(x[i], x[i]) ELSE RSub(x[i + 1], x[i])]

\* np.diff(x, prepend=x[0])
np_diff_prepend(x) ==
    [i \in 1..Len(x) |-> IF i = 1 THEN RSub(x[1], x[1]) ELSE RSub(x[i], x[i - 1])]

\* np.cumsum
RECURSIVE SumTo(_, _)
SumTo(x, i) == IF i = 1 THEN x[1] ELSE RAdd(SumTo(x, i - 1), x[i])

cumsum(x) == [i \in 1..Len(x) |-> SumTo(x, i)]

\* element-wise operators of two series / of a series and a scalar
SeriesSub(a, b) == [i \in 1..Len(a) |-> RSub(a[i], b[i])]

SeriesDiv(a, b) == [i \in 1..Len(a) |-> RDiv(a[i], b[i])]

SeriesMul(a, b) == [i \in 1..Len(a) |-> RMul(a[i], b[i])]

SubScalar(a, c) == [i \in 1..Len(a) |-> RSub(a[i], c)]

(***************************************************************************)
(* str operations on token sequences.                                      *)
(***************************************************************************)
\* sub in s
Contains(s, sub) ==
    \E i \in 1..(Len(s) - Len(sub) + 1) : SubSeq(s, i, i + Len(sub) - 1) = sub

\* s.replace(old, new), old not empty
RECURSIVE str_replace(_, _, _)
str_replace(s, old, new) ==
    IF Len(s) < Len(old) THEN s
    ELSE IF SubSeq(s, 1, Len(old)) = old
    THEN new \o str_replace(SubSeq(s, Len(old) + 1, Len(s)), old, new)
    ELSE <<Head(s)>> \o str_replace(Tail(s), old, new)


(***************************************************************************)
(* Column names and program constants.                                     *)
(***************************************************************************)
Timestamp == <<"Timestamp">>

FreqCol(st) == <<st, ":", "Frequency">>

reference_station == <<"DE_Ostrhauderfehn", ":", "Phase">>

nominal_freq == <<50, 1>>

PaletteLen == 10

Variants == {"main", "BO_2025"}

\* the values the mode-selector of each entry point offers
ModeOptions(v) ==
    IF v = "main" THEN {"Frequency", "Phase", "RoCoF"} ELSE {"Frequency", "Phase"}

(***************************************************************************)
(* pandas.DataFrame: the ordered column names and the series of each.      *)
(***************************************************************************)
EmptyDF == [columns |-> <<>>, data |-> <<>>]

HasCol(d, col) == col \in DOMAIN d.data

\* df[col] = s : an existing column is overwritten in place, a new one appended
df_set(d, col, s) ==
    [columns |-> IF HasCol(d, col) THEN d.columns ELSE Append(d.columns, col),
     data    |-> [c \in (DOMAIN d.data) \cup {col} |->
                     IF c = col THEN s ELSE d.data[c]]]

\* pd.to_datetime of one cell: a tick count becomes an absolute time
to_datetime(t) == <<t, 1>>

\* Timedelta.total_seconds()
total_seconds(td) == RDiv(td, <<TicksPerSecond, 1>>)

\* pd.read_csv(...); df['Timestamp'] = pd.to_datetime(df['Timestamp'])
read_csv(file) ==
    [columns |-> file.columns,
     data    |-> [c \in DOMAIN file.data |->
                     IF c = Timestamp
                     THEN [i \in 1..Len(file.data[c]) |-> to_datetime(file.data[c][i])]
                     ELSE file.data[c]]]

(***************************************************************************)
(* The derivation pipeline.                                                *)
(***************************************************************************)
\* compute_phase_angle(df, freq_col, nominal_freq=50.0); the result is the
\* coefficient of 2*pi
compute_phase_angle(d, freq_col) ==
    LET timestamps  == d.data[Timestamp]
        freqs       == GapFill(d.data[freq_col])
        time_sec    == [i \in 1..Len(timestamps) |->
                           total_seconds(RSub(timestamps[i], timestamps[1]))]
        dt          == np_diff_prepend(time_sec)
        delta_f     == SubScalar(freqs, nominal_freq)
        delta_theta == SeriesMul(delta_f, dt)
    IN  cumsum(delta_theta)

\* the difference quotient over raw timestamp differences, not seconds
compute_rocof_ticks(d, col) ==
    SeriesDiv(diff(GapFill(d.data[col])), diff(d.data[Timestamp]))

\* freq_series.diff() / df['Timestamp'].diff().dt.total_seconds()
compute_rocof(d, col) ==
    LET freq_series == GapFill(d.data[col])
        tdiff       == diff(d.data[Timestamp])
        seconds     == [i \in 1..Len(tdiff) |-> total_seconds(tdiff[i])]
    IN  SeriesDiv(diff(freq_series), seconds)

\* [col for col in df.columns if 'Frequency' in col]
discover(d) == SelectSeq(d.columns, LAMBDA col : Contains(col, <<"Frequency">>))

PhaseName(col) == str_replace(col, <<"Frequency">>, <<"Phase">>)

RoCoFName(col) == str_replace(col, <<"Frequency">>, <<"RoCoF">>)

RelName(col) == col \o <<"_rel">>

\* one iteration of the loop over frequency_columns; BO_2025 has no RoCoF
PhaseBody(v, d, col) ==
    LET d1 == df_set(d, PhaseName(col), compute_phase_angle(d, col))
    IN  IF v = "main" THEN df_set(d1, RoCoFName(col), compute_rocof(d1, col)) ELSE d1

\* one iteration of the normalisation loop (reference_station is in df)
NormalizeBody(d, col) ==
    df_set(d, RelName(col), SeriesSub(d.data[col], d.data[reference_station]))

\* the options and the initial value of the station-selector dropdown
Dropdown(cols) ==
    [options |-> [i \in 1..Len(cols) |->
                     [label |-> str_replace(cols[i], <<":", "Frequency">>, <<>>),
                      value |-> cols[i]]],
     value   |-> SubSeq(cols, 1, IF Len(cols) < 2 THEN Len(cols) ELSE 2)]

(***************************************************************************)
(* update_graph: the column a (station, mode) pair reads, and its trace.   *)
(***************************************************************************)
ColName(v, freq_col, mode) ==
    IF mode = "Frequency" THEN freq_col
    ELSE IF mode = "Phase" \/ v = "BO_2025" THEN RelName(PhaseName(freq_col))
    ELSE RoCoFName(freq_col)

\* go.Scatter(x=df['Timestamp'], y=df[col_name], name=f"{label} ({mode})", ...)
Scatter(v, d, freq_col, mode, i) ==
    [x     |-> d.data[Timestamp],
     y     |-> d.data[ColName(v, freq_col, mode)],
     name  |-> str_replace(freq_col, <<":", "Frequency">>, <<>>) \o <<" (", mode, ")">>,
     color |-> IF v = "main" THEN (i - 1) % PaletteLen ELSE -1]

(***************************************************************************)
(* State.                                                                  *)
(***************************************************************************)
VARIABLES
    variant,            \* which entry point runs: "main" or "BO_2025"
    csv,                \* the input file: column headers and raw cells
    df,                 \* the module-level DataFrame
    frequency_columns,  \* the discovered station columns, in header order
    phase_angle_cols,   \* the absolute phase columns computed so far
    freq_series,        \* main's module-level gap-filled series, <<>> if unset
    pc,                 \* position of the module-level script
    idx,                \* position of the running module-level loop
    error,              \* the exception that ended the script, "" if none
    station_selector,   \* the dropdown of app.layout
    requests            \* the update_graph calls, one per slot

vars == <<variant, csv, df, frequency_columns, phase_angle_cols, freq_series, pc,
          idx, error, station_selector, requests>>

loadVars == <<df, frequency_columns, phase_angle_cols, freq_series, pc, idx,
              error, station_selector>>

Slots == 1..MaxRequests

IdleRequest ==
    [pc |-> "idle", selected_stations |-> <<>>, mode |-> "", i |-> 1,
     traces |-> <<>>, yaxis_title |-> "", outcome |-> ""]

(***************************************************************************)
(* Module-level script: load, derive, normalise, build the layout.         *)
(***************************************************************************)
\* df = pd.read_csv(...); df['Timestamp'] = pd.to_datetime(df['Timestamp'])
ReadCsv ==
    /\ pc = "read_csv"
    /\ df' = read_csv(csv)
    /\ pc' = "discover"
    /\ UNCHANGED <<variant, csv, frequency_columns, phase_angle_cols, freq_series,
                   idx, error, station_selector, requests>>

\* frequency_columns = [...]; phase_angle_cols = []
Discover ==
    /\ pc = "discover"
    /\ frequency_columns' = discover(df)
    /\ phase_angle_cols' = <<>>
    /\ idx' = 1
    /\ pc' = "phase"
    /\ UNCHANGED <<variant, csv, df, freq_series, error, station_selector, requests>>

\* for col in frequency_columns: phase (and, in main, RoCoF) of one station
PhaseStep ==
    /\ pc = "phase"
    /\ IF idx <= Len(frequency_columns)
       THEN /\ df' = PhaseBody(variant, df, frequency_columns[idx])
            /\ phase_angle_cols' =
                   Append(phase_angle_cols, PhaseName(frequency_columns[idx]))
            /\ freq_series' = IF variant = "main"
                               THEN GapFill(df.data[frequency_columns[idx]])
                               ELSE freq_series
            /\ idx' = idx + 1
            /\ pc' = pc
       ELSE /\ pc' = "normalize"
            /\ idx' = 1
            /\ UNCHANGED <<df, phase_angle_cols, freq_series>>
    /\ UNCHANGED <<variant, csv, frequency_columns, error, station_selector, requests>>

\* for col in phase_angle_cols: df[col + '_rel'] = df[col] - df[reference_station]
\* df[reference_station] raises KeyError when there is no such column
NormalizeStep ==
    /\ pc = "normalize"
    /\ IF idx <= Len(phase_angle_cols)
       THEN IF HasCol(df, reference_station)
            THEN /\ df' = NormalizeBody(df, phase_angle_cols[idx])
                 /\ idx' = idx + 1
                 /\ UNCHANGED <<pc, error>>
            ELSE /\ pc' = "crashed"
                 /\ error' = "KeyError"
                 /\ UNCHANGED <<df, idx>>
       ELSE /\ pc' = "layout"
            /\ UNCHANGED <<df, idx, error>>
    /\ UNCHANGED <<variant, csv, frequency_columns, phase_angle_cols, freq_series,
                   station_selector, requests>>

\* app.layout = ...; app.run(): the callback is served from here on
BuildLayout ==
    /\ pc = "layout"
    /\ station_selector' = Dropdown(frequency_columns)
    /\ pc' = "serving"
    /\ UNCHANGED <<variant, csv, df, frequency_columns, phase_angle_cols,
                   freq_series, idx, error, requests>>

(***************************************************************************)
(* update_graph(selected_stations, mode), one step per loop iteration.     *)
(***************************************************************************)
\* the callback is entered: traces = []
StartRequest(r, sel, mode) ==
    /\ pc = "serving"
    /\ requests[r].pc \in {"idle", "done"}
    /\ requests' = [requests EXCEPT ![r] =
           [pc |-> "loop", selected_stations |-> sel, mode |-> mode, i |-> 1,
            traces |-> <<>>, yaxis_title |-> "", outcome |-> ""]]
    /\ UNCHANGED <<variant, csv>>
    /\ UNCHANGED loadVars

\* the title the loop body of main leaves in yaxis_title
MainTitle(mode) ==
    IF mode = "Frequency" THEN "Frequency (Hz)"
    ELSE IF mode = "Phase" THEN "Relative Phase Angle (rad)"
    ELSE "RoCoF (Hz/s)"

\* one iteration: df[col_name] raises KeyError when there is no such column
LoopBody(v, d, q) ==
    LET freq_col == q.selected_stations[q.i] IN
    IF HasCol(d, ColName(v, freq_col, q.mode))
    THEN [q EXCEPT !.traces = Append(@, Scatter(v, d, freq_col, q.mode, q.i)),
                   !.yaxis_title = IF v = "main" THEN MainTitle(q.mode) ELSE @,
                   !.i = @ + 1]
    ELSE [q EXCEPT !.pc = "done", !.outcome = "KeyError"]

\* the return statement: main reads yaxis_title, which only the loop body
\* assigns; BO_2025 computes it here
ReturnBody(v, q) ==
    IF v = "main"
    THEN IF q.yaxis_title = ""
         THEN [q EXCEPT !.pc = "done", !.outcome = "UnboundLocalError"]
         ELSE [q EXCEPT !.pc = "done", !.outcome = "ok"]
    ELSE [q EXCEPT !.pc = "done", !.outcome = "ok",
                   !.yaxis_title = IF q.mode = "Frequency" THEN "Frequency (Hz)"
                                   ELSE "Phase Angle (rad)"]

\* an iteration that gap-fills the column it plots in the shared table
LoopStepFilling(r) ==
    /\ requests[r].pc = "loop"
    /\ requests[r].i <= Len(requests[r].selected_stations)
    /\ requests' = [requests EXCEPT ![r] = LoopBody(variant, df, requests[r])]
    /\ LET col == ColName(variant, requests[r].selected_stations[requests[r].i],
                          requests[r].mode)
       IN  df' = IF HasCol(df, col) THEN df_set(df, col, GapFill(df.data[col])) ELSE df
    /\ UNCHANGED <<variant, csv, frequency_columns, phase_angle_cols, freq_series,
                   pc, idx, error, station_selector>>

LoopStep(r) ==
    /\ requests[r].pc = "loop"
    /\ requests[r].i <= Len(requests[r].selected_stations)
    /\ requests' = [requests EXCEPT ![r] = LoopBody(variant, df, requests[r])]
    /\ UNCHANGED <<variant, csv>>
    /\ UNCHANGED loadVars

Return(r) ==
    /\ requests[r].pc = "loop"
    /\ requests[r].i > Len(requests[r].selected_stations)
    /\ requests' = [requests EXCEPT ![r] = ReturnBody(variant, requests[r])]
    /\ UNCHANGED <<variant, csv>>
    /\ UNCHANGED loadVars

(***************************************************************************)
(* Input tables.                                                           *)
(***************************************************************************)
Range(f) == {f[x] : x \in DOMAIN f}

InjectiveSeqs(S) ==
    {h \in UNION {[1..n -> S] : n \in 0..Cardinality(S)} :
        \A a, b \in DOMAIN h : h[a] = h[b] => a = b}

DE == FreqCol("DE_Ostrhauderfehn")

ES == FreqCol("ES_Madrid")

\* raw frequency cells: missing, 50.0 Hz (nominal), 50.1 Hz
FreqValues == {NaN, <<50, 1>>, <<501, 10>>}

\* one station, every raw sequence and every timestamp sequence (irregular,
\* duplicate and decreasing timestamps included)
NumericCsvs ==
    {[columns |-> <<Timestamp, DE>>,
      data    |-> [c \in {Timestamp, DE} |-> IF c = Timestamp THEN t ELSE f]] :
        <<t, f>> \in UNION {[1..n -> 0..MaxTick] \X [1..n -> FreqValues] :
                              n \in 1..MaxRows}}

\* raw sequences of a station in the serving specifications: all missing,
\* missing at the start, and a ramp from 50.1 Hz in steps of 0.1 Hz
ServeSeries ==
    {[i \in 1..ServeRows |-> NaN],
     [i \in 1..ServeRows |-> IF i = 1 THEN NaN ELSE <<501, 10>>],
     [i \in 1..ServeRows |-> Rat(500 + i, 10)]}

ServeTicks == [i \in 1..ServeRows |-> i - 1]

\* a raw (non-frequency) column that carries the reference's phase name
RawPhaseCells == [i \in 1..ServeRows |-> <<i, 1>>]

\* every order of every subset of the headers DE:Frequency, ES:Frequency and
\* DE:Phase after the Timestamp column, with every choice of station data
ServeCsvs ==
    {[columns |-> <<Timestamp>> \o h,
      data    |-> [c \in {Timestamp} \cup Range(h) |->
                      IF c = Timestamp THEN ServeTicks
                      ELSE IF c = reference_station THEN RawPhaseCells
                      ELSE d[c]]] :
        <<h, d>> \in UNION {{h} \X [Range(h) -> ServeSeries] :
                              h \in InjectiveSeqs({DE, ES, reference_station})}}

\* the identifiers a request may name: the stations, a column that is no
\* station, and the reference's phase column
Identifiers == {DE, ES, Timestamp, reference_station}

Selections(ids, n) == UNION {[1..k -> ids] : k \in 0..n}

\* the selections of the concurrent specification: none, a station, an
\* identifier that is no column
ConcSelections == {<<>>, <<DE>>, <<ES>>}

ConcCsvs ==
    {[columns |-> <<Timestamp, DE>>,
      data    |-> [c \in {Timestamp, DE} |->
                      IF c = Timestamp THEN ServeTicks ELSE s]] : s \in ServeSeries}

(***************************************************************************)
(* Specifications.                                                         *)
(***************************************************************************)
InitWith(files) ==
    /\ variant \in Variants
    /\ csv \in files
    /\ df = EmptyDF
    /\ frequency_columns = <<>>
    /\ phase_angle_cols = <<>>
    /\ freq_series = <<>>
    /\ pc = "read_csv"
    /\ idx = 1
    /\ error = ""
    /\ station_selector = [options |-> <<>>, value |-> <<>>]
    /\ requests = [r \in Slots |-> IdleRequest]

Load == ReadCsv \/ Discover \/ PhaseStep \/ NormalizeStep \/ BuildLayout

Serve(r, sels) ==
    \/ \E sel \in sels, mode \in ModeOptions(variant) :
           StartRequest(r, sel, mode)
    \/ LoopStep(r)
    \/ Return(r)

\* the dashboard, one request at a time
Init == InitWith(ServeCsvs)

Next == Load \/ Serve(1, Selections(Identifiers, MaxSelection))

Spec == Init /\ [][Next]_vars

\* the numerical pipeline over every small table of one station
InitNum == InitWith(NumericCsvs)

NextNum == Load

SpecNum == InitNum /\ [][NextNum]_vars

\* several requests in flight, their loop iterations interleaved
InitConc == InitWith(ConcCsvs)

NextConc == Load \/ \E r \in Slots : Serve(r, ConcSelections)

SpecConc == InitConc /\ [][NextConc]_vars

(***************************************************************************)
(* The script and the callback run to completion, as functions of the      *)
(* input: the same loop bodies, folded.                                    *)
(***************************************************************************)
RECURSIVE PhaseLoop(_, _, _)
PhaseLoop(v, d, cols) ==
    IF cols = <<>> THEN d ELSE PhaseLoop(v, PhaseBody(v, d, Head(cols)), Tail(cols))

RECURSIVE NormalizeLoop(_, _)
NormalizeLoop(d, cols) ==
    IF cols = <<>> THEN [error |-> "", df |-> d]
    ELSE IF ~HasCol(d, reference_station) THEN [error |-> "KeyError", df |-> d]
    ELSE NormalizeLoop(NormalizeBody(d, Head(cols)), Tail(cols))

LoadAll(v, file) ==
    LET d0   == read_csv(file)
        cols == discover(d0)
        d1   == PhaseLoop(v, d0, cols)
        done == NormalizeLoop(d1, [i \in 1..Len(cols) |-> PhaseName(cols[i])])
    IN  [error |-> done.error, df |-> done.df, frequency_columns |-> cols]

RECURSIVE RunRequest(_, _, _)
RunRequest(v, d, q) ==
    IF q.pc = "done" THEN q
    ELSE IF q.i <= Len(q.selected_stations) THEN RunRequest(v, d, LoopBody(v, d, q))
    ELSE ReturnBody(v, q)

update_graph(v, d, selected_stations, mode) ==
    RunRequest(v, d, [IdleRequest EXCEPT !.pc = "loop",
                                         !.selected_stations = selected_stations,
                                         !.mode = mode])

(***************************************************************************)
(* Vocabulary of the properties.                                           *)
(***************************************************************************)
\* the script has left the loop over frequency_columns
Derived == pc \in {"normalize", "layout", "serving", "crashed"}

\* the script has ended without an exception: requests may be served
Loaded == pc \in {"layout", "serving"}

Stations == Range(frequency_columns)

Rows == 1..Len(csv.data[Timestamp])

\* raw cells and gap-filled frequency of a station, from the input file
Raw(col) == csv.data[col]

Filled(col) == GapFill(csv.data[col])

\* elapsed ticks between rows i - 1 and i
TickStep(i) == csv.data[Timestamp][i] - csv.data[Timestamp][i - 1]

ConstantFrequency(col) ==
    /\ IsFinite(Filled(col)[1])
    /\ \A i \in Rows : Filled(col)[i] = Filled(col)[1]

UniformSpacing == \A i \in Rows : i >= 3 => TickStep(i) = TickStep(2)

\* delta * Delta-t of a constant frequency on a uniform grid
StepPhase(col) ==
    IF Len(csv.data[Timestamp]) = 1 THEN Zero
    ELSE RMul(RSub(Filled(col)[1], nominal_freq), Rat(TickStep(2), TicksPerSecond))

(***************************************************************************)
(* Properties of the numerical pipeline (specification SpecNum).           *)
(***************************************************************************)
\* C1: for every station whose gap-filled frequency is constant at
\* nominal + delta over rows with uniform spacing Delta-t, the absolute phase
\* at row i (counted from 0) is 2*pi*delta*Delta-t*i; it is 0 at row 0, and 0
\* at every row when delta = 0.
C1_PhaseClosedForm ==
    Derived =>
        \A col \in Stations :
            (ConstantFrequency(col) /\ UniformSpacing) =>
                /\ df.data[PhaseName(col)][1] = Zero
                /\ \A i \in Rows :
                       df.data[PhaseName(col)][i] = RMul(StepPhase(col), <<i - 1, 1>>)
                /\ Filled(col)[1] = nominal_freq =>
                       \A i \in Rows : df.data[PhaseName(col)][i] = Zero

\* a station with a gap in its raw cells, a constant gap-filled frequency off
\* nominal and three rows a non-zero step apart: its phase has left zero
C1_Witness ==
    /\ Derived
    /\ \E col \in Stations :
           /\ Len(Raw(col)) >= 3
           /\ ConstantFrequency(col) /\ UniformSpacing
           /\ TickStep(2) # 0
           /\ Filled(col)[1] # nominal_freq
           /\ \E i \in Rows : IsNaN(Raw(col)[i])
           /\ df.data[PhaseName(col)][3] # Zero
           /\ df.data[PhaseName(col)][3] # df.data[PhaseName(col)][2]

\* C2: the RoCoF series of every station has the length of the table, holds
\* the missing marker at row 0 and, at every later row i, (f_i - f_{i-1}) / dt_i
\* of the gap-filled frequency f over the elapsed seconds dt_i; where dt_i = 0
\* it is infinite or missing, never finite.
C2_RoCoF ==
    (variant = "main" /\ Derived) =>
        \A col \in Stations :
            LET r == df.data[RoCoFName(col)]
                f == Filled(col)
            IN  /\ Len(r) = Len(csv.data[Timestamp])
                /\ r[1] = NaN
                /\ \A i \in Rows \ {1} :
                       IF TickStep(i) = 0 THEN ~IsFinite(r[i])
                       ELSE IF IsNaN(f[i]) \/ IsNaN(f[i - 1]) THEN IsNaN(r[i])
                       ELSE /\ IsFinite(r[i])
                            /\ r[i][1] * TickStep(i) * f[i][2] * f[i - 1][2]
                                 = r[i][2] * TicksPerSecond
                                     * (f[i][1] * f[i - 1][2] - f[i - 1][1] * f[i][2])

\* a table with a repeated timestamp where the frequency moved (RoCoF is
\* infinite there) followed by a row where it fell over a positive time
C2_Witness ==
    /\ variant = "main" /\ Derived
    /\ \E col \in Stations :
           /\ Len(Raw(col)) >= 3
           /\ TickStep(2) = 0 /\ df.data[RoCoFName(col)][2] = <<1, 0>>
           /\ TickStep(3) > 0
           /\ IsFinite(df.data[RoCoFName(col)][3])
           /\ df.data[RoCoFName(col)][3][1] < 0

\* the raw cells of the station main's freq_series was last computed from
LastRaw == Raw(frequency_columns[Len(phase_angle_cols)])

\* C3: the gap-filled sequence has the length of the raw one, no missing
\* value, and the raw value wherever the raw value was present, for missing
\* entries at any set of positions.
C3_GapFilled ==
    (variant = "main" /\ phase_angle_cols # <<>>) =>
        /\ Len(freq_series) = Len(LastRaw)
        /\ \A i \in Rows : ~IsNaN(freq_series[i])
        /\ \A i \in Rows : ~IsNaN(LastRaw[i]) => freq_series[i] = LastRaw[i]

\* what holds of C3 on the code: the same, for a raw sequence that has at
\* least one value
GapFilledIfAnyPresent ==
    (variant = "main" /\ phase_angle_cols # <<>>
       /\ \E i \in Rows : ~IsNaN(LastRaw[i])) =>
        /\ Len(freq_series) = Len(LastRaw)
        /\ \A i \in Rows : ~IsNaN(freq_series[i])
        /\ \A i \in Rows : ~IsNaN(LastRaw[i]) => freq_series[i] = LastRaw[i]

(***************************************************************************)
(* Properties of the loaded table and of the callback (Spec, SpecConc).    *)
(***************************************************************************)
\* the station's column of a signal kind, by name: "<StationID>:<kind>"
KindColumn(st, kind) ==
    IF kind = "Phase" THEN <<st[1], ":", "Phase", "_rel">> ELSE <<st[1], ":", kind>>

\* absolute phase of a station as the integrator computes it from the input
AbsPhase(st) == compute_phase_angle(read_csv(csv), st)

\* C4: after load the relative phase of every station is its absolute phase
\* minus the reference's absolute phase (the integrator's output, whatever the
\* reference's position among the columns), and the reference's own relative
\* phase is zero at every row.
C4_RelativePhase ==
    (Loaded /\ DE \in Stations) =>
        /\ \A st \in Stations : \A i \in Rows :
               df.data[KindColumn(st, "Phase")][i]
                   = RSub(AbsPhase(st)[i], AbsPhase(DE)[i])
        /\ \A i \in Rows : df.data[KindColumn(DE, "Phase")][i] = Zero

\* what holds of C4 on the code: the element-wise difference for every
\* station, and zero for a reference that has at least one raw value
RelativePhaseIfReferencePresent ==
    (Loaded /\ DE \in Stations) =>
        /\ \A st \in Stations : \A i \in Rows :
               df.data[KindColumn(st, "Phase")][i]
                   = RSub(AbsPhase(st)[i], AbsPhase(DE)[i])
        /\ (\E i \in Rows : ~IsNaN(Raw(DE)[i])) =>
               \A i \in Rows : df.data[KindColumn(DE, "Phase")][i] = Zero

\* the normalisation loop never writes the reference's absolute phase
ReferenceNotAltered ==
    [][pc = "normalize" /\ HasCol(df, reference_station)
          => df'.data[reference_station] = df.data[reference_station]]_vars

KnownSelection(q) == \A k \in DOMAIN q.selected_stations : q.selected_stations[k] \in Stations

\* C5: a query over known stations returns one series per selected station,
\* in the order of the selection, each the station's column of the requested
\* kind; the empty selection returns the empty result and no error.
C5_OneSeriesPerStation ==
    \A r \in Slots :
        LET q == requests[r] IN
        (q.pc = "done" /\ KnownSelection(q)) =>
            /\ q.outcome = "ok"
            /\ Len(q.traces) = Len(q.selected_stations)
            /\ \A k \in DOMAIN q.traces :
                   /\ q.traces[k].y = df.data[KindColumn(q.selected_stations[k], q.mode)]
                   /\ q.traces[k].x = df.data[Timestamp]
                   /\ q.traces[k].name = <<q.selected_stations[k][1], " (", q.mode, ")">>

\* what holds of C5 on the code: the same, for a selection that is not empty
\* or in BO_2025
OneSeriesPerStationNonEmpty ==
    \A r \in Slots :
        LET q == requests[r] IN
        (q.pc = "done" /\ KnownSelection(q)
           /\ (q.selected_stations # <<>> \/ variant = "BO_2025")) =>
            /\ q.outcome = "ok"
            /\ Len(q.traces) = Len(q.selected_stations)
            /\ \A k \in DOMAIN q.traces :
                   /\ q.traces[k].y = df.data[KindColumn(q.selected_stations[k], q.mode)]
                   /\ q.traces[k].x = df.data[Timestamp]
                   /\ q.traces[k].name = <<q.selected_stations[k][1], " (", q.mode, ")">>

\* C6: a query that names an identifier that is no discovered station is
\* rejected (the lookup's KeyError stands for NotFoundError): no series is
\* returned for such an identifier and the request ends in the error.
C6_UnknownRejected ==
    \A r \in Slots :
        LET q == requests[r] IN
        /\ \A k \in DOMAIN q.traces : q.selected_stations[k] \in Stations
        /\ (q.pc = "done" /\ ~KnownSelection(q)) => q.outcome = "KeyError"

\* what holds of C8 on the code: with at least one station and no column of
\* the reference's phase name, the script ends in KeyError and never serves
MissingReferenceCrashes ==
    (Derived /\ frequency_columns # <<>> /\ ~HasCol(df, reference_station)) =>
        pc \in {"normalize", "crashed"}

\* what holds of C6 on the code: an identifier whose column of the requested
\* kind does not exist ends the request in KeyError
MissingColumnRejected ==
    \A r \in Slots :
        LET q == requests[r] IN
        (q.pc = "done"
           /\ \E k \in DOMAIN q.selected_stations :
                  ~HasCol(df, ColName(variant, q.selected_stations[k], q.mode))) =>
            q.outcome = "KeyError"

\* C7: once load has finished the table is read-only: no step of any request,
\* failing ones included, in any interleaving, changes the columns or a value
\* of a raw or derived series; requests run only after load, and every series
\* a request holds is the completely computed one.
C7_ReadOnlyAfterLoad ==
    [][/\ pc = "serving" =>
              UNCHANGED <<df, frequency_columns, phase_angle_cols, freq_series, pc,
                          error, station_selector>>
       /\ \A r \in Slots :
              /\ requests'[r].pc # "idle" => pc = "serving"
              /\ \A k \in DOMAIN requests'[r].traces :
                     requests'[r].traces[k].y =
                         LoadAll(variant, csv).df.data[
                             ColName(variant, requests'[r].selected_stations[k],
                                     requests'[r].mode)]]_vars

\* one request has failed while another, started before it ended, holds a
\* series and has not returned
C7_Witness ==
    \E r1, r2 \in Slots :
        /\ r1 # r2
        /\ requests[r1].pc = "done" /\ requests[r1].outcome = "KeyError"
        /\ requests[r2].pc = "loop" /\ Len(requests[r2].traces) = 1
        /\ \E i \in Rows : IsNaN(df.data[DE][i])

\* C8: load fails (ConfigError) before any query can be served whenever the
\* reference station is not among the discovered stations.
C8_ConfigError == Loaded => DE \in Stations

\* C9: load fails (LoadError) when the table has no column whose header
\* contains 'Frequency': no dashboard is built over an empty station set.
C9_LoadError == Loaded => frequency_columns # <<>>

Other(v) == IF v = "main" THEN "BO_2025" ELSE "main"

\* C10: the two entry points discover the same stations in the same order,
\* compute identical absolute and relative phases, and answer every query over
\* stations with kind Frequency or Phase alike (same series, order, labels and
\* values, or both fail).
C10_SameOutcome ==
    LET twin == LoadAll(Other(variant), csv) IN
    /\ Loaded =>
           /\ twin.error = ""
           /\ twin.frequency_columns = frequency_columns
           /\ \A st \in Stations :
                  /\ twin.df.data[PhaseName(st)] = df.data[PhaseName(st)]
                  /\ twin.df.data[KindColumn(st, "Phase")] = df.data[KindColumn(st, "Phase")]
    /\ pc = "crashed" => twin.error = error
    /\ \A r \in Slots :
           LET q  == requests[r]
               q2 == update_graph(Other(variant), twin.df, q.selected_stations, q.mode)
           IN  (q.pc = "done" /\ KnownSelection(q) /\ q.mode \in {"Frequency", "Phase"}) =>
                   /\ q2.outcome = q.outcome
                   /\ Len(q2.traces) = Len(q.traces)
                   /\ \A k \in DOMAIN q.traces :
                          /\ q2.traces[k].x = q.traces[k].x
                          /\ q2.traces[k].y = q.traces[k].y
                          /\ q2.traces[k].name = q.traces[k].name

\* what holds of C10 on the code: the same, for a selection that is not empty
SameOutcomeNonEmpty ==
    LET twin == LoadAll(Other(variant), csv) IN
    /\ Loaded =>
           /\ twin.error = ""
           /\ twin.frequency_columns = frequency_columns
           /\ \A st \in Stations :
                  /\ twin.df.data[PhaseName(st)] = df.data[PhaseName(st)]
                  /\ twin.df.data[KindColumn(st, "Phase")] = df.data[KindColumn(st, "Phase")]
    /\ pc = "crashed" => twin.error = error
    /\ \A r \in Slots :
           LET q  == requests[r]
               q2 == update_graph(Other(variant), twin.df, q.selected_stations, q.mode)
           IN  (q.pc = "done" /\ KnownSelection(q) /\ q.mode \in {"Frequency", "Phase"}
                  /\ q.selected_stations # <<>>) =>
                   /\ q2.outcome = q.outcome
                   /\ Len(q2.traces) = Len(q.traces)
                   /\ \A k \in DOMAIN q.traces :
                          /\ q2.traces[k].x = q.traces[k].x
                          /\ q2.traces[k].y = q.traces[k].y
                          /\ q2.traces[k].name = q.traces[k].name

=============================================================================
